---- MODULE Spec2Model ----
(***************************************************************************)
(* Cross-VM bridge of exchain: x/vmbridge/keeper/evm.go (Handle,           *)
(* SendToEvm, CallEvm) and the height-gated store filters of               *)
(* x/wasm/module_adapter.go.                                               *)
(*                                                                         *)
(* The handlers are synchronous: each action below is one whole handler    *)
(* call, executed inside an enclosing transaction whose writes go to the   *)
(* context's cache (ctx) and reach the committed store (committed) only    *)
(* when the transaction commits.                                           *)
(***************************************************************************)
EXTENDS Integers, Sequences, FiniteSets, TLC

\* ------------------------------------------------------------------ bounds
MaxHeight == 3
MaxEarthHeight == 2
MaxSeq == 2
MaxWasmExec == 1
MaxStamps == 2
MaxGas == 2
MaxCalls == 2

\* ------------------------------------------------------------------ inputs
Nil == "nil"

\* Address strings, by prefix and by the class of what follows the prefix.
AddrStrings ==
    { [prefix |-> "0x", body |-> "hex40a"],
      [prefix |-> "0x", body |-> "hex39"],
      [prefix |-> "ex", body |-> "bech32"],
      [prefix |-> "",   body |-> "not-an-eth-address"] }

Callers == {"wasmContract1"}
Amounts == {0, 500}
EmittingContracts == {"evmContract1"}
WasmAddrs == {"wasm1"}
Recipients == {"ex1recipient"}
Codes == {"code1"}

\* ABI layout of event SendToWasm: two strings and one numeric slot.
SendToWasmEventInputs == <<"string", "string", "uint256">>

\* Pack: the ABI encoding of a SendToWasm log, one typed slot per argument.
PackSendToWasm(wasmAddr, recipient, amount) ==
    << [t |-> "string", v |-> wasmAddr],
       [t |-> "string", v |-> recipient],
       [t |-> "uint256", v |-> amount] >>

LogData ==
    { PackSendToWasm(w, r, a) : w \in WasmAddrs, r \in Recipients, a \in Amounts }
    \cup { <<>>,
           << [t |-> "string", v |-> "wasm1"] >>,
           << [t |-> "string", v |-> "wasm1"], [t |-> "string", v |-> "ex1recipient"] >> }

\* Return bytes of the mint call, as a sequence of 32-byte words.
RetInputs == { <<1>>, <<0>>, <<>> }

\* Outcomes of the state transition: failure, or success with return bytes
\* and the contract code it created in the working state.
Transitions ==
    { [err |-> TRUE, ret |-> <<>>, created |-> c] : c \in SUBSET Codes }
    \cup { [err |-> FALSE, ret |-> r, created |-> c] : r \in RetInputs, c \in SUBSET Codes }

ChainIDs == { [name |-> "exchain", epoch |-> 66],
              [name |-> "exchain", epoch |-> 0] }

\* ------------------------------------------------------------------- state
VARIABLES
    height,         \* ctx.BlockHeight()
    earthHeight,    \* milestoneEarthHeight, 0 when unset
    vmbridgeEnable, \* wasm params.VmbridgeEnable
    chainConfig,    \* evmKeeper.GetChainConfig found
    chainID,        \* ctx.ChainID()
    committed,      \* store as of the last committed transaction
    ctx,            \* store seen through the enclosing transaction's cache
    inTx,           \* an enclosing transaction is open
    txBegin,        \* committed store when the enclosing transaction began
    txEvmOk,        \* number of CallEvm that succeeded in this transaction
    evmOkCommitted, \* number of CallEvm that succeeded in committed transactions
    last,           \* the last handler call: inputs, results, collaborator trace
    upgradeVersion, \* the wasm store's upgrade-version marker
    stamps,         \* number of SetUpgradeVersion calls so far
    firstAtEarth,   \* the first commit-filter evaluation that stamped the marker
    flast,          \* the last store-filter evaluation
    gasMeterLimit,  \* ctx.GasMeter().Limit()
    maxGasLimitPerTx, \* evm params.MaxGasLimitPerTx
    once,           \* sync.Once: done flag and holder of its mutex
    gWasmConfig,    \* package variable gWasmConfig
    gWasmDir,       \* package variable gWasmDir
    configErr,      \* ReadWasmConfig fails on the process's configuration
    initRuns,       \* number of times Init was entered
    proc,           \* per goroutine: position, function called, calls made
    exited,         \* the process died of an unrecovered panic
    rlast,          \* the last WasmDir / WasmConfig call that returned
    validProposalTypes, \* package variable validProposalTypes, as its key set
    registered,     \* types RegisterProposalType has added so far
    everValid,      \* types IsValidProposalType has answered true for
    halted,         \* an unrecovered RegisterProposalType panic ended the process
    plast           \* the last RegisterProposalType / IsValidProposalType call

bridgeVars == <<height, earthHeight, vmbridgeEnable, chainConfig, chainID,
                committed, ctx, inTx, txBegin, txEvmOk, evmOkCommitted, last>>

filterVars == <<upgradeVersion, stamps, firstAtEarth, flast>>

gasVars == <<gasMeterLimit, maxGasLimitPerTx>>

onceVars == <<once, gWasmConfig, gWasmDir, configErr, initRuns, proc, exited, rlast>>

proposalVars == <<validProposalTypes, registered, everValid, halted, plast>>

vars == <<bridgeVars, filterVars, gasVars, onceVars, proposalVars>>

EmptyStore == [accExists |-> FALSE, accSeq |-> 0, code |-> {}, wasmExec |-> 0]

\* The nil *ExecutionResult / *ResultData, and the ones a transition produces.
NilResult == [nil |-> TRUE, ret |-> <<>>]
ResultOf(tdb) == [nil |-> FALSE, ret |-> tdb.ret]

NoWasm == [called |-> FALSE, caller |-> Nil, wasmAddr |-> Nil, recipient |-> Nil, amount |-> 0]
NoEvm == [called |-> FALSE, res |-> NilResult, data |-> NilResult, err |-> Nil, nonce |-> 0,
          gasLimit |-> 0]

NoCall == [op |-> "none", h |-> 0, enable |-> FALSE, args |-> Nil,
           err |-> Nil, success |-> FALSE, trace |-> <<>>,
           wasm |-> NoWasm, evm |-> NoEvm,
           pre |-> EmptyStore, post |-> EmptyStore,
           dbPre |-> EmptyStore, dbPost |-> EmptyStore]

InTrace(tr, x) == \E i \in DOMAIN tr : tr[i] = x

\* ------------------------------------------------------------ collaborators
GetEarthHeight == earthHeight

\* The activation gate: never passes while the height is unset, and passes
\* only at heights above the activation height.  The commit filter treats
\* h == GetEarthHeight() and HigherThanEarth(h) as two separate cases.
HigherThanEarth(h) ==
    IF earthHeight = 0 THEN FALSE ELSE h > earthHeight

IsETHAddress(s) == s.prefix = "0x" /\ s.body \in {"hex40a"}

AccAddressFromBech32(s) ==
    IF s.prefix = "ex"
    THEN [err |-> s.body # "bech32", addr |-> s.body]
    ELSE [err |-> s.body \notin {"hex40a"}, addr |-> s.body]

GetMintERC20Input(caller, recipientAddr, amount) ==
    [err |-> FALSE, input |-> <<"mintERC20", caller, recipientAddr, amount>>]

GetMintERC20Output(ret) ==
    IF Len(ret) = 1
    THEN [success |-> (ret[1] = 1), err |-> Nil]
    ELSE [success |-> FALSE, err |-> "ErrCallFailed"]

ParseChainID(c) ==
    IF c.name # "" /\ c.epoch >= 1
    THEN [err |-> FALSE, epoch |-> c.epoch]
    ELSE [err |-> TRUE, epoch |-> 0]

Unpack(data) ==
    IF /\ Len(data) = Len(SendToWasmEventInputs)
       /\ \A i \in DOMAIN data : data[i].t = SendToWasmEventInputs[i]
    THEN [err |-> FALSE, vals |-> [i \in DOMAIN data |-> data[i].v]]
    ELSE [err |-> TRUE, vals |-> <<>>]

\* Keeper.SendToWasm: runs the WASM contract; a failed execution leaves the
\* store as it was.
SendToWasm(st, caller, wasmAddr, recipient, amount, wasmOk) ==
    IF wasmOk
    THEN [st |-> [st EXCEPT !.ctx.wasmExec = @ + 1], err |-> Nil]
    ELSE [st |-> st, err |-> "ErrWasmExecute"]

\* accountKeeper.GetAccount: the nil account when none is stored.
NilAccount == [nil |-> TRUE, seq |-> 0]

GetAccount(s) ==
    IF s.accExists THEN [nil |-> FALSE, seq |-> s.accSeq] ELSE NilAccount

NewAccountWithAddress == [nil |-> FALSE, seq |-> 0]

SetAccount(st, acc) ==
    [st EXCEPT !.ctx.accExists = TRUE, !.ctx.accSeq = acc.seq]

\* ---------------------------------------------------------------- handlers
\* A handler works on st = [ctx |-> the transaction's cached store,
\* db |-> the committed store] and returns the stores it leaves, its results
\* and the trace of collaborator calls it made.

\* st.Csdb.Commit(false): the working state was created over ctx, so the
\* created code is written through the transaction's cache.
CsdbCommitDirect(st, created) ==
    [st EXCEPT !.ctx.code = @ \cup created, !.db.code = @ \cup created]

CsdbCommit(st, created) ==
    [st EXCEPT !.ctx.code = @ \cup created]

\* acc.SetSequence(nonce + 1)
SetSequenceKeep(acc, nonce) == [acc EXCEPT !.seq = nonce]

SetSequenceTwice(acc, nonce) == [acc EXCEPT !.seq = nonce + 2]

SetSequence(acc, nonce) == [acc EXCEPT !.seq = nonce + 1]

\* sdk.NewInfiniteGasMeter().Limit()
InfiniteGasLimit == 0

GasLimitNoSubstitute(limit) == limit

\* gasLimit := ctx.GasMeter().Limit(), replaced by MaxGasLimitPerTx when it
\* is the limit of the infinite meter.
GasLimit(limit) ==
    IF limit = InfiniteGasLimit THEN maxGasLimitPerTx ELSE limit

CallEvmWriteBeforeCheck(st, tdb) ==
    IF ~chainConfig
    THEN [st |-> st, res |-> NilResult, data |-> NilResult, err |-> "ErrChainConfigNotFound",
          nonce |-> 0, gasLimit |-> 0, trace |-> <<"GetChainConfig">>]
    ELSE IF ParseChainID(chainID).err
    THEN [st |-> st, res |-> NilResult, data |-> NilResult, err |-> "ErrParseChainID",
          nonce |-> 0, gasLimit |-> 0, trace |-> <<"GetChainConfig">>]
    ELSE
        LET got == GetAccount(st.ctx)
            acc == IF got.nil THEN NewAccountWithAddress ELSE got
            nonce == acc.seq
            written == SetAccount(CsdbCommit(st, tdb.created), SetSequence(acc, nonce))
        IN  IF tdb.err
            THEN [st |-> written, res |-> NilResult, data |-> NilResult, err |-> "ErrExecution",
                  nonce |-> nonce, gasLimit |-> GasLimit(gasMeterLimit),
                  trace |-> <<"GetChainConfig", "GetAccount", "TransitionDb",
                              "Commit", "SetAccount">>]
            ELSE [st |-> written,
                  res |-> ResultOf(tdb), data |-> ResultOf(tdb), err |-> Nil,
                  nonce |-> nonce, gasLimit |-> GasLimit(gasMeterLimit),
                  trace |-> <<"GetChainConfig", "GetAccount", "TransitionDb",
                              "Commit", "SetAccount">>]

\* Keeper.CallEvm
CallEvm(st, tdb) ==
    IF ~chainConfig
    THEN [st |-> st, res |-> NilResult, data |-> NilResult, err |-> "ErrChainConfigNotFound",
          nonce |-> 0, gasLimit |-> 0, trace |-> <<"GetChainConfig">>]
    ELSE IF ParseChainID(chainID).err
    THEN [st |-> st, res |-> NilResult, data |-> NilResult, err |-> "ErrParseChainID",
          nonce |-> 0, gasLimit |-> 0, trace |-> <<"GetChainConfig">>]
    ELSE
        LET got == GetAccount(st.ctx)
            acc == IF got.nil THEN NewAccountWithAddress ELSE got
            nonce == acc.seq
        IN  IF tdb.err
            THEN [st |-> st, res |-> NilResult, data |-> NilResult, err |-> "ErrExecution",
                  nonce |-> nonce, gasLimit |-> GasLimit(gasMeterLimit),
                  trace |-> <<"GetChainConfig", "GetAccount", "TransitionDb">>]
            ELSE [st |-> SetAccount(CsdbCommit(st, tdb.created), SetSequence(acc, nonce)),
                  res |-> ResultOf(tdb), data |-> ResultOf(tdb), err |-> Nil,
                  nonce |-> nonce, gasLimit |-> GasLimit(gasMeterLimit),
                  trace |-> <<"GetChainConfig", "GetAccount", "TransitionDb",
                              "Commit", "SetAccount">>]

EvmOf(r) == [called |-> TRUE, res |-> r.res, data |-> r.data, err |-> r.err, nonce |-> r.nonce,
             gasLimit |-> r.gasLimit]

SendToEvmNoContractCheck(st, caller, contract, recipient, amount, tdb) ==
    IF ~IsETHAddress(recipient)
    THEN [st |-> st, success |-> FALSE, err |-> "ErrIsNotETHAddr", trace |-> <<>>, evm |-> NoEvm]
    ELSE
        LET c == AccAddressFromBech32(contract)
            rc == AccAddressFromBech32(recipient)
            in == GetMintERC20Input(caller, rc.addr, amount)
        IN  IF c.err
            THEN [st |-> st, success |-> FALSE, err |-> "ErrBech32", trace |-> <<>>, evm |-> NoEvm]
            ELSE IF rc.err
            THEN [st |-> st, success |-> FALSE, err |-> "ErrBech32", trace |-> <<>>, evm |-> NoEvm]
            ELSE IF in.err
            THEN [st |-> st, success |-> FALSE, err |-> "ErrPack", trace |-> <<>>, evm |-> NoEvm]
            ELSE
                LET r == CallEvm(st, tdb)
                    tr == <<"CallEvm">> \o r.trace
                IN  IF r.err # Nil
                    THEN [st |-> r.st, success |-> FALSE, err |-> r.err,
                          trace |-> tr, evm |-> EvmOf(r)]
                    ELSE LET out == GetMintERC20Output(r.data.ret)
                         IN  [st |-> r.st, success |-> out.success, err |-> out.err,
                              trace |-> tr, evm |-> EvmOf(r)]

\* Keeper.SendToEvm
SendToEvm(st, caller, contract, recipient, amount, tdb) ==
    IF ~IsETHAddress(recipient)
    THEN [st |-> st, success |-> FALSE, err |-> "ErrIsNotETHAddr", trace |-> <<>>, evm |-> NoEvm]
    ELSE IF ~IsETHAddress(contract)
    THEN [st |-> st, success |-> FALSE, err |-> "ErrIsNotETHAddr", trace |-> <<>>, evm |-> NoEvm]
    ELSE
        LET c == AccAddressFromBech32(contract)
            rc == AccAddressFromBech32(recipient)
            in == GetMintERC20Input(caller, rc.addr, amount)
        IN  IF c.err
            THEN [st |-> st, success |-> FALSE, err |-> "ErrBech32", trace |-> <<>>, evm |-> NoEvm]
            ELSE IF rc.err
            THEN [st |-> st, success |-> FALSE, err |-> "ErrBech32", trace |-> <<>>, evm |-> NoEvm]
            ELSE IF in.err
            THEN [st |-> st, success |-> FALSE, err |-> "ErrPack", trace |-> <<>>, evm |-> NoEvm]
            ELSE
                LET r == CallEvm(st, tdb)
                    tr == <<"CallEvm">> \o r.trace
                IN  IF r.err # Nil
                    THEN [st |-> r.st, success |-> FALSE, err |-> r.err,
                          trace |-> tr, evm |-> EvmOf(r)]
                    ELSE LET out == GetMintERC20Output(r.data.ret)
                         IN  [st |-> r.st, success |-> out.success, err |-> out.err,
                              trace |-> tr, evm |-> EvmOf(r)]

\* sdk.NewIntFromBigInt: the integer the numeric ABI slot holds.
NewIntFromBigInt(b) == b

WasmOfSwapped(contract, vals) ==
    [called |-> TRUE, caller |-> contract, wasmAddr |-> vals[2],
     recipient |-> vals[1], amount |-> NewIntFromBigInt(vals[3])]

WasmOf(contract, vals) ==
    [called |-> TRUE, caller |-> contract, wasmAddr |-> vals[1],
     recipient |-> vals[2], amount |-> NewIntFromBigInt(vals[3])]

HandlePropagateDecodeError(st, h, contract, data, wasmOk) ==
    IF ~HigherThanEarth(h)
    THEN [st |-> st, err |-> "ErrUnknownRequest", trace |-> <<>>, wasm |-> NoWasm]
    ELSE IF ~vmbridgeEnable
    THEN [st |-> st, err |-> "ErrVMBridgeEnable", trace |-> <<"GetParams">>, wasm |-> NoWasm]
    ELSE
        LET u == Unpack(data)
        IN  IF u.err
            THEN [st |-> st, err |-> "ErrUnpack", trace |-> <<"GetParams", "Unpack">>,
                  wasm |-> NoWasm]
            ELSE
                LET w == WasmOf(contract, u.vals)
                    r == SendToWasm(st, w.caller, w.wasmAddr, w.recipient, w.amount, wasmOk)
                IN  [st |-> r.st, err |-> r.err,
                     trace |-> <<"GetParams", "Unpack", "SendToWasm">>, wasm |-> w]

HandleNoEnableCheck(st, h, contract, data, wasmOk) ==
    IF ~HigherThanEarth(h)
    THEN [st |-> st, err |-> "ErrUnknownRequest", trace |-> <<>>, wasm |-> NoWasm]
    ELSE
        LET u == Unpack(data)
        IN  IF u.err
            THEN [st |-> st, err |-> Nil, trace |-> <<"GetParams", "Unpack">>,
                  wasm |-> NoWasm]
            ELSE
                LET w == WasmOf(contract, u.vals)
                    r == SendToWasm(st, w.caller, w.wasmAddr, w.recipient, w.amount, wasmOk)
                IN  [st |-> r.st, err |-> r.err,
                     trace |-> <<"GetParams", "Unpack", "SendToWasm">>, wasm |-> w]

HandleDropCall(st, h, contract, data, wasmOk) ==
    IF ~HigherThanEarth(h)
    THEN [st |-> st, err |-> "ErrUnknownRequest", trace |-> <<>>, wasm |-> NoWasm]
    ELSE IF ~vmbridgeEnable
    THEN [st |-> st, err |-> "ErrVMBridgeEnable", trace |-> <<"GetParams">>, wasm |-> NoWasm]
    ELSE [st |-> st, err |-> Nil, trace |-> <<"GetParams", "Unpack">>, wasm |-> NoWasm]

\* SendToWasmEventHandler.Handle
Handle(st, h, contract, data, wasmOk) ==
    IF ~HigherThanEarth(h)
    THEN [st |-> st, err |-> "ErrUnknownRequest", trace |-> <<>>, wasm |-> NoWasm]
    ELSE IF ~vmbridgeEnable
    THEN [st |-> st, err |-> "ErrVMBridgeEnable", trace |-> <<"GetParams">>, wasm |-> NoWasm]
    ELSE
        LET u == Unpack(data)
        IN  IF u.err
            THEN [st |-> st, err |-> Nil, trace |-> <<"GetParams", "Unpack">>,
                  wasm |-> NoWasm]
            ELSE
                LET w == WasmOf(contract, u.vals)
                    r == SendToWasm(st, w.caller, w.wasmAddr, w.recipient, w.amount, wasmOk)
                IN  [st |-> r.st, err |-> r.err,
                     trace |-> <<"GetParams", "Unpack", "SendToWasm">>, wasm |-> w]

\* ------------------------------------------------------------ store filters
\* x/wasm/module_adapter.go.  A filter answers TRUE when the module's store
\* is left out of the commit (or of the pruning) at height h.  The store
\* argument s is [nil, upgradeVersion]; a filter returns its answer, the
\* store it leaves and the SetUpgradeVersion calls it made.
ModuleName == "wasm"
Modules == {"wasm", "evm"}
FilterHeights == (0 - 1) .. MaxHeight

NoVersion == [set |-> FALSE, v |-> 0]

StoreArg(hasStore) == [nil |-> ~hasStore, upgradeVersion |-> upgradeVersion]

SetUpgradeVersionBump(s, h) ==
    [s EXCEPT !.upgradeVersion =
        [set |-> TRUE, v |-> IF s.upgradeVersion.set THEN s.upgradeVersion.v + 1 ELSE h]]

\* s.SetUpgradeVersion(h)
SetUpgradeVersion(s, h) == [s EXCEPT !.upgradeVersion = [set |-> TRUE, v |-> h]]

UpgradeHeight == GetEarthHeight

defaultDenyFilterAll(module, h, s) ==
    [res |-> TRUE, s |-> s, stamped |-> <<>>]

defaultDenyFilter(module, h, s) ==
    [res |-> (module = ModuleName), s |-> s, stamped |-> <<>>]

defaultCommitFilterNoStamp(module, h, s) ==
    IF module # ModuleName
    THEN [res |-> FALSE, s |-> s, stamped |-> <<>>]
    ELSE IF h = GetEarthHeight
    THEN [res |-> FALSE, s |-> s, stamped |-> <<>>]
    ELSE IF HigherThanEarth(h)
    THEN [res |-> FALSE, s |-> s, stamped |-> <<>>]
    ELSE [res |-> TRUE, s |-> s, stamped |-> <<>>]

defaultCommitFilterStampAbove(module, h, s) ==
    IF module # ModuleName
    THEN [res |-> FALSE, s |-> s, stamped |-> <<>>]
    ELSE IF h = GetEarthHeight \/ HigherThanEarth(h)
    THEN IF ~s.nil
         THEN [res |-> FALSE, s |-> SetUpgradeVersion(s, h), stamped |-> <<h>>]
         ELSE [res |-> FALSE, s |-> s, stamped |-> <<>>]
    ELSE [res |-> TRUE, s |-> s, stamped |-> <<>>]

defaultCommitFilter(module, h, s) ==
    IF module # ModuleName
    THEN [res |-> FALSE, s |-> s, stamped |-> <<>>]
    ELSE IF h = GetEarthHeight
    THEN IF ~s.nil
         THEN [res |-> FALSE, s |-> SetUpgradeVersion(s, h), stamped |-> <<h>>]
         ELSE [res |-> FALSE, s |-> s, stamped |-> <<>>]
    ELSE IF HigherThanEarth(h)
    THEN [res |-> FALSE, s |-> s, stamped |-> <<>>]
    ELSE [res |-> TRUE, s |-> s, stamped |-> <<>>]

defaultPruneFilterFromEarth(module, h, s) ==
    IF module # ModuleName
    THEN [res |-> FALSE, s |-> s, stamped |-> <<>>]
    ELSE IF h = GetEarthHeight \/ HigherThanEarth(h)
    THEN [res |-> FALSE, s |-> s, stamped |-> <<>>]
    ELSE [res |-> TRUE, s |-> s, stamped |-> <<>>]

defaultPruneFilter(module, h, s) ==
    IF module # ModuleName
    THEN [res |-> FALSE, s |-> s, stamped |-> <<>>]
    ELSE IF HigherThanEarth(h)
    THEN [res |-> FALSE, s |-> s, stamped |-> <<>>]
    ELSE [res |-> TRUE, s |-> s, stamped |-> <<>>]

\* The enumerator returned for h, as the sequence of callback invocations
\* cb(name, version) it makes.
defaultVersionFilter(h) ==
    IF h < 0
    THEN <<>>
    ELSE << [name |-> ModuleName, version |-> GetEarthHeight] >>

\* AppModule.CommitFilter()(module, h, s)
CommitFilter(module, h, s) ==
    IF UpgradeHeight = 0
    THEN defaultDenyFilter(module, h, s)
    ELSE defaultCommitFilter(module, h, s)

\* AppModule.PruneFilter()(module, h, s)
PruneFilter(module, h, s) ==
    IF UpgradeHeight = 0
    THEN defaultDenyFilter(module, h, s)
    ELSE defaultPruneFilter(module, h, s)

\* AppModule.VersionFilter()(h)
VersionFilter(h) == defaultVersionFilter(h)

NoFilterCall == [kind |-> "none", module |-> Nil, h |-> 0, hasStore |-> FALSE,
                 res |-> FALSE, stamped |-> <<>>, cbs |-> <<>>,
                 markerPre |-> NoVersion, markerPost |-> NoVersion]

NoFirst == [done |-> FALSE, res |-> FALSE, marker |-> NoVersion]

FilterInit ==
    /\ upgradeVersion = NoVersion
    /\ stamps = 0
    /\ firstAtEarth = NoFirst
    /\ flast = NoFilterCall

StoreFilterCall(kind, module, h, hasStore, r) ==
    /\ Len(r.stamped) > 0 => stamps < MaxStamps
    /\ upgradeVersion' = r.s.upgradeVersion
    /\ stamps' = stamps + Len(r.stamped)
    /\ firstAtEarth' = IF ~firstAtEarth.done /\ Len(r.stamped) > 0
                       THEN [done |-> TRUE, res |-> r.res, marker |-> r.s.upgradeVersion]
                       ELSE firstAtEarth
    /\ flast' = [kind |-> kind, module |-> module, h |-> h, hasStore |-> hasStore,
                 res |-> r.res, stamped |-> r.stamped, cbs |-> <<>>,
                 markerPre |-> upgradeVersion, markerPost |-> r.s.upgradeVersion]

EvalCommitFilter ==
    /\ \E module \in Modules, h \in FilterHeights, hasStore \in BOOLEAN :
         StoreFilterCall("commit", module, h, hasStore,
                         CommitFilter(module, h, StoreArg(hasStore)))
    /\ UNCHANGED <<bridgeVars, gasVars, onceVars, proposalVars>>

EvalPruneFilter ==
    /\ \E module \in Modules, h \in FilterHeights, hasStore \in BOOLEAN :
         StoreFilterCall("prune", module, h, hasStore,
                         PruneFilter(module, h, StoreArg(hasStore)))
    /\ UNCHANGED <<bridgeVars, gasVars, onceVars, proposalVars>>

EvalVersionFilter ==
    /\ \E h \in FilterHeights :
         flast' = [NoFilterCall EXCEPT !.kind = "version", !.h = h,
                                       !.cbs = VersionFilter(h),
                                       !.markerPre = upgradeVersion,
                                       !.markerPost = upgradeVersion]
    /\ UNCHANGED <<upgradeVersion, stamps, firstAtEarth>>
    /\ UNCHANGED <<bridgeVars, gasVars, onceVars, proposalVars>>

\* ------------------------------------------------------ wasm configuration
\* WasmDir() and WasmConfig() both run once.Do(Init) and then read a package
\* variable.  once.Do takes the fast path when done is set; otherwise it
\* locks the mutex, and, if done is still unset, runs Init with done set and
\* the mutex released on the way out, also when Init panics.
Procs == {"g1", "g2"}
Funcs == {"WasmDir", "WasmConfig"}

ZeroConfig == "zero WasmConfig"
LoadedConfig == "WasmConfig read from configuration"
ZeroDir == ""
LoadedDir == "home/wasm"

NoReturn == [returned |-> FALSE, p |-> Nil, fn |-> Nil, val |-> Nil]

OnceInit ==
    /\ once = [done |-> FALSE, m |-> Nil]
    /\ gWasmConfig = ZeroConfig
    /\ gWasmDir = ZeroDir
    /\ configErr = FALSE
    /\ initRuns = 0
    /\ proc = [p \in Procs |-> [pc |-> "idle", fn |-> Nil, calls |-> 0]]
    /\ exited = FALSE
    /\ rlast = NoReturn

\* A goroutine calls WasmDir() or WasmConfig().
Call(p) ==
    /\ ~exited
    /\ proc[p].pc = "idle"
    /\ proc[p].calls < MaxCalls
    /\ \E f \in Funcs :
         proc' = [proc EXCEPT ![p] = [pc |-> "do", fn |-> f, calls |-> @.calls + 1]]
    /\ UNCHANGED <<once, gWasmConfig, gWasmDir, configErr, initRuns, exited, rlast>>
    /\ UNCHANGED <<bridgeVars, filterVars, gasVars, proposalVars>>

\* once.Do: the load of done.
OnceDo(p) ==
    /\ ~exited
    /\ proc[p].pc = "do"
    /\ proc' = [proc EXCEPT ![p].pc = IF once.done THEN "read" ELSE "lock"]
    /\ UNCHANGED <<once, gWasmConfig, gWasmDir, configErr, initRuns, exited, rlast>>
    /\ UNCHANGED <<bridgeVars, filterVars, gasVars, proposalVars>>

\* doSlow: o.m.Lock(), then the second test of done.
OnceLock(p) ==
    /\ ~exited
    /\ proc[p].pc = "lock"
    /\ once.m = Nil
    /\ IF once.done
       THEN /\ proc' = [proc EXCEPT ![p].pc = "read"]
            /\ UNCHANGED <<once, initRuns>>
       ELSE /\ proc' = [proc EXCEPT ![p].pc = "init"]
            /\ once' = [once EXCEPT !.m = p]
            /\ initRuns' = initRuns + 1
    /\ UNCHANGED <<gWasmConfig, gWasmDir, configErr, exited, rlast>>
    /\ UNCHANGED <<bridgeVars, filterVars, gasVars, proposalVars>>

\* Init: ReadWasmConfig, panic on error, else gWasmConfig = wasmConfig.
InitReadConfig(p) ==
    /\ ~exited
    /\ proc[p].pc = "init"
    /\ IF configErr
       THEN /\ proc' = [proc EXCEPT ![p].pc = "panic"]
            /\ once' = [done |-> TRUE, m |-> Nil]
            /\ UNCHANGED gWasmConfig
       ELSE /\ proc' = [proc EXCEPT ![p].pc = "initDir"]
            /\ gWasmConfig' = LoadedConfig
            /\ UNCHANGED once
    /\ UNCHANGED <<gWasmDir, configErr, initRuns, exited, rlast>>
    /\ UNCHANGED <<bridgeVars, filterVars, gasVars, proposalVars>>

\* Init: gWasmDir = filepath.Join(home, "wasm"); then the deferred store of
\* done and the unlock.
InitSetDir(p) ==
    /\ ~exited
    /\ proc[p].pc = "initDir"
    /\ gWasmDir' = LoadedDir
    /\ once' = [done |-> TRUE, m |-> Nil]
    /\ proc' = [proc EXCEPT ![p].pc = "read"]
    /\ UNCHANGED <<gWasmConfig, configErr, initRuns, exited, rlast>>
    /\ UNCHANGED <<bridgeVars, filterVars, gasVars, proposalVars>>

\* return gWasmDir / return gWasmConfig
Return(p) ==
    /\ ~exited
    /\ proc[p].pc = "read"
    /\ rlast' = [returned |-> TRUE, p |-> p, fn |-> proc[p].fn,
                 val |-> IF proc[p].fn = "WasmDir" THEN gWasmDir ELSE gWasmConfig]
    /\ proc' = [proc EXCEPT ![p].pc = "idle"]
    /\ UNCHANGED <<once, gWasmConfig, gWasmDir, configErr, initRuns, exited>>
    /\ UNCHANGED <<bridgeVars, filterVars, gasVars, proposalVars>>

\* The panic of Init reaches the caller: a caller that recovers goes on, an
\* unrecovered panic ends the process.
PanicRecovered(p) ==
    /\ ~exited
    /\ proc[p].pc = "panic"
    /\ proc' = [proc EXCEPT ![p].pc = "idle"]
    /\ UNCHANGED <<once, gWasmConfig, gWasmDir, configErr, initRuns, exited, rlast>>
    /\ UNCHANGED <<bridgeVars, filterVars, gasVars, proposalVars>>

PanicExits(p) ==
    /\ ~exited
    /\ proc[p].pc = "panic"
    /\ exited' = TRUE
    /\ UNCHANGED <<once, gWasmConfig, gWasmDir, configErr, initRuns, proc, rlast>>
    /\ UNCHANGED <<bridgeVars, filterVars, gasVars, proposalVars>>

\* --------------------------------------------------- proposal type registry
\* validProposalTypes is a package-level map used as a set; it starts with the
\* two built-in types.  RegisterProposalType panics before it writes when the
\* type is present, and adds the type otherwise.
ProposalTypeText == "Text"
ProposalTypeSoftwareUpgrade == "SoftwareUpgrade"

BuiltinProposalTypes == {ProposalTypeText, ProposalTypeSoftwareUpgrade}

ProposalTypes ==
    BuiltinProposalTypes
        \cup {"ParameterChange", "CommunityPoolSpend", "ManageContract", ""}

NoProposalCall == [op |-> "none", ty |-> Nil, panicked |-> FALSE, ok |-> FALSE,
                   pre |-> {}, post |-> {}]

RegisterProposalTypeOverwrite(types, ty) ==
    IF ty \in types
    THEN [panicked |-> TRUE, types |-> {ty}]
    ELSE [panicked |-> FALSE, types |-> types \cup {ty}]

\* RegisterProposalType(ty) on the registry `types`: whether it panicked and
\* the registry it leaves.
RegisterProposalType(types, ty) ==
    IF ty \in types
    THEN [panicked |-> TRUE, types |-> types]
    ELSE [panicked |-> FALSE, types |-> types \cup {ty}]

IsValidProposalType(types, ty) == ty \in types

ProposalInit ==
    /\ validProposalTypes = BuiltinProposalTypes
    /\ registered = {}
    /\ everValid = {}
    /\ halted = FALSE
    /\ plast = NoProposalCall

\* A caller registers a type.  A panic either is recovered by the caller or
\* ends the process.
CallRegisterProposalType ==
    /\ ~halted
    /\ \E ty \in ProposalTypes, recovered \in BOOLEAN :
         LET r == RegisterProposalType(validProposalTypes, ty) IN
           /\ validProposalTypes' = r.types
           /\ registered' = IF r.panicked THEN registered ELSE registered \cup {ty}
           /\ halted' = (r.panicked /\ ~recovered)
           /\ plast' = [op |-> "RegisterProposalType", ty |-> ty,
                        panicked |-> r.panicked, ok |-> FALSE,
                        pre |-> validProposalTypes, post |-> r.types]
    /\ UNCHANGED everValid
    /\ UNCHANGED <<bridgeVars, filterVars, gasVars, onceVars>>

\* A caller asks whether a type is valid.
CallIsValidProposalType ==
    /\ ~halted
    /\ \E ty \in ProposalTypes :
         LET ok == IsValidProposalType(validProposalTypes, ty) IN
           /\ everValid' = IF ok THEN everValid \cup {ty} ELSE everValid
           /\ plast' = [op |-> "IsValidProposalType", ty |-> ty,
                        panicked |-> FALSE, ok |-> ok,
                        pre |-> validProposalTypes, post |-> validProposalTypes]
    /\ UNCHANGED <<validProposalTypes, registered, halted>>
    /\ UNCHANGED <<bridgeVars, filterVars, gasVars, onceVars>>

\* ----------------------------------------------------------------- actions
Stores == [ctx |-> ctx, db |-> committed]

Init ==
    /\ height = 1
    /\ earthHeight \in 0..MaxEarthHeight
    /\ vmbridgeEnable \in BOOLEAN
    /\ chainConfig \in BOOLEAN
    /\ chainID \in ChainIDs
    /\ committed = EmptyStore
    /\ ctx = EmptyStore
    /\ inTx = FALSE
    /\ txBegin = EmptyStore
    /\ txEvmOk = 0
    /\ evmOkCommitted = 0
    /\ last = NoCall
    /\ FilterInit
    /\ gasMeterLimit = InfiniteGasLimit
    /\ maxGasLimitPerTx = MaxGas
    /\ OnceInit
    /\ ProposalInit

\* A new block: transactions execute one after the other inside a block.
NextBlock ==
    /\ ~inTx
    /\ height < MaxHeight
    /\ height' = height + 1
    /\ last' = NoCall
    /\ UNCHANGED <<earthHeight, vmbridgeEnable, chainConfig, chainID,
                   committed, ctx, inTx, txBegin, txEvmOk>>
    /\ UNCHANGED <<evmOkCommitted, filterVars, gasVars, onceVars, proposalVars>>

\* The operator flips the bridge kill-switch between transactions.
SetVmbridgeEnable ==
    /\ ~inTx
    /\ vmbridgeEnable' = ~vmbridgeEnable
    /\ last' = NoCall
    /\ UNCHANGED <<height, earthHeight, chainConfig, chainID,
                   committed, ctx, inTx, txBegin, txEvmOk>>
    /\ UNCHANGED <<evmOkCommitted, filterVars, gasVars, onceVars, proposalVars>>

BeginTx ==
    /\ ~inTx
    /\ inTx' = TRUE
    /\ ctx' = committed
    /\ txBegin' = committed
    /\ txEvmOk' = 0
    /\ last' = NoCall
    /\ UNCHANGED <<height, earthHeight, vmbridgeEnable, chainConfig, chainID, committed>>
    /\ UNCHANGED <<evmOkCommitted, filterVars, gasVars, onceVars, proposalVars>>

CommitTx ==
    /\ inTx
    /\ inTx' = FALSE
    /\ committed' = ctx
    /\ evmOkCommitted' = evmOkCommitted + txEvmOk
    /\ last' = [NoCall EXCEPT !.op = "CommitTx", !.h = height,
                               !.pre = ctx, !.post = ctx,
                               !.dbPre = committed, !.dbPost = ctx]
    /\ UNCHANGED <<height, earthHeight, vmbridgeEnable, chainConfig, chainID,
                   ctx, txBegin, txEvmOk>>
    /\ UNCHANGED <<filterVars, gasVars, onceVars, proposalVars>>

AbortTx ==
    /\ inTx
    /\ inTx' = FALSE
    /\ ctx' = committed
    /\ last' = [NoCall EXCEPT !.op = "AbortTx", !.h = height,
                               !.pre = ctx, !.post = committed,
                               !.dbPre = committed, !.dbPost = committed]
    /\ UNCHANGED <<height, earthHeight, vmbridgeEnable, chainConfig, chainID,
                   committed, txBegin, txEvmOk>>
    /\ UNCHANGED <<evmOkCommitted, filterVars, gasVars, onceVars, proposalVars>>

HandleLog ==
    /\ inTx
    /\ \E contract \in EmittingContracts, data \in LogData, wasmOk \in BOOLEAN :
        /\ wasmOk => ctx.wasmExec < MaxWasmExec
        /\ LET r == Handle(Stores, height, contract, data, wasmOk)
           IN  /\ ctx' = r.st.ctx
               /\ committed' = r.st.db
               /\ last' = [op |-> "Handle", h |-> height, enable |-> vmbridgeEnable,
                           args |-> [contract |-> contract, data |-> data],
                           err |-> r.err, success |-> (r.err = Nil), trace |-> r.trace,
                           wasm |-> r.wasm, evm |-> NoEvm,
                           pre |-> ctx, post |-> r.st.ctx,
                           dbPre |-> committed, dbPost |-> r.st.db]
    /\ UNCHANGED <<height, earthHeight, vmbridgeEnable, chainConfig, chainID,
                   inTx, txBegin, txEvmOk>>
    /\ UNCHANGED <<evmOkCommitted, filterVars, gasVars, onceVars, proposalVars>>

WasmSendToEvm ==
    /\ inTx
    /\ \E caller \in Callers, contract \in AddrStrings, recipient \in AddrStrings,
          amount \in Amounts, tdb \in Transitions :
        /\ ~tdb.err => ctx.accSeq < MaxSeq
        /\ LET r == SendToEvm(Stores, caller, contract, recipient, amount, tdb)
           IN  /\ ctx' = r.st.ctx
               /\ committed' = r.st.db
               /\ txEvmOk' = IF r.evm.called /\ r.evm.err = Nil THEN txEvmOk + 1 ELSE txEvmOk
               /\ last' = [op |-> "SendToEvm", h |-> height, enable |-> vmbridgeEnable,
                           args |-> [contract |-> contract, recipient |-> recipient],
                           err |-> r.err, success |-> r.success, trace |-> r.trace,
                           wasm |-> NoWasm, evm |-> r.evm,
                           pre |-> ctx, post |-> r.st.ctx,
                           dbPre |-> committed, dbPost |-> r.st.db]
    /\ UNCHANGED <<height, earthHeight, vmbridgeEnable, chainConfig, chainID,
                   inTx, txBegin>>
    /\ UNCHANGED <<evmOkCommitted, filterVars, gasVars, onceVars, proposalVars>>

Next ==
    \/ NextBlock
    \/ SetVmbridgeEnable
    \/ BeginTx
    \/ CommitTx
    \/ AbortTx
    \/ HandleLog
    \/ WasmSendToEvm

Spec == Init /\ [][Next]_vars

\* The store filters, evaluated in any order at any heights for one chain
\* configuration.
FilterSpecInit ==
    /\ height = 1
    /\ earthHeight \in 0..MaxEarthHeight
    /\ vmbridgeEnable = FALSE
    /\ chainConfig = TRUE
    /\ chainID \in {c \in ChainIDs : ~ParseChainID(c).err}
    /\ committed = EmptyStore
    /\ ctx = EmptyStore
    /\ inTx = FALSE
    /\ txBegin = EmptyStore
    /\ txEvmOk = 0
    /\ evmOkCommitted = 0
    /\ last = NoCall
    /\ FilterInit
    /\ gasMeterLimit = InfiniteGasLimit
    /\ maxGasLimitPerTx = MaxGas
    /\ OnceInit
    /\ ProposalInit

FilterNext ==
    \/ EvalCommitFilter
    \/ EvalPruneFilter
    \/ EvalVersionFilter

FilterSpec == FilterSpecInit /\ [][FilterNext]_vars

\* CallEvm under every gas meter limit and every configured maximum.
GasSpecInit ==
    /\ height = 1
    /\ earthHeight = 0
    /\ vmbridgeEnable = TRUE
    /\ chainConfig = TRUE
    /\ chainID \in {c \in ChainIDs : ~ParseChainID(c).err}
    /\ committed = EmptyStore
    /\ ctx = EmptyStore
    /\ inTx = FALSE
    /\ txBegin = EmptyStore
    /\ txEvmOk = 0
    /\ evmOkCommitted = 0
    /\ last = NoCall
    /\ FilterInit
    /\ gasMeterLimit \in 0..MaxGas
    /\ maxGasLimitPerTx \in {1, MaxGas}
    /\ OnceInit
    /\ ProposalInit

GasSpec == GasSpecInit /\ [][Next]_vars

\* Goroutines calling WasmDir() and WasmConfig() concurrently, with a
\* configuration that ReadWasmConfig accepts or rejects.
OnceSpecInit ==
    /\ height = 1
    /\ earthHeight = 1
    /\ vmbridgeEnable = TRUE
    /\ chainConfig = TRUE
    /\ chainID \in {c \in ChainIDs : ~ParseChainID(c).err}
    /\ committed = EmptyStore
    /\ ctx = EmptyStore
    /\ inTx = FALSE
    /\ txBegin = EmptyStore
    /\ txEvmOk = 0
    /\ evmOkCommitted = 0
    /\ last = NoCall
    /\ FilterInit
    /\ gasMeterLimit = InfiniteGasLimit
    /\ maxGasLimitPerTx = MaxGas
    /\ once = [done |-> FALSE, m |-> Nil]
    /\ gWasmConfig = ZeroConfig
    /\ gWasmDir = ZeroDir
    /\ configErr \in BOOLEAN
    /\ initRuns = 0
    /\ proc = [p \in Procs |-> [pc |-> "idle", fn |-> Nil, calls |-> 0]]
    /\ exited = FALSE
    /\ rlast = NoReturn
    /\ ProposalInit

OnceNext ==
    \/ \E p \in Procs : Call(p)
    \/ \E p \in Procs : OnceDo(p)
    \/ \E p \in Procs : OnceLock(p)
    \/ \E p \in Procs : InitReadConfig(p)
    \/ \E p \in Procs : InitSetDir(p)
    \/ \E p \in Procs : Return(p)
    \/ \E p \in Procs : PanicRecovered(p)
    \/ \E p \in Procs : PanicExits(p)

OnceSpec == OnceSpecInit /\ [][OnceNext]_vars

\* Any sequence of RegisterProposalType and IsValidProposalType calls.
ProposalNext ==
    \/ CallRegisterProposalType
    \/ CallIsValidProposalType

ProposalSpec == Init /\ [][ProposalNext]_vars

\* ------------------------------------------------------------------ claims
Unchanged == last.post = last.pre /\ last.dbPost = last.dbPre

\* C1 (as stated): at every height strictly below the activation height both
\* entry points, Handle and SendToEvm, return the not-supported error, reach
\* neither the WASM runtime nor the state transition, and leave the state
\* unchanged.
C1_BelowActivationNotSupported ==
    (last.op \in {"Handle", "SendToEvm"} /\ last.h < earthHeight)
        => /\ last.err = "ErrUnknownRequest"
           /\ ~InTrace(last.trace, "SendToWasm")
           /\ ~InTrace(last.trace, "TransitionDb")
           /\ Unchanged

\* C2: a SendToEvm call that returns without error leaves the system account
\* stored with its sequence one above the sequence before the call (zero for
\* an absent account).
C2_SuccessAdvancesSequenceByOne ==
    (last.op = "SendToEvm" /\ last.err = Nil)
        => /\ last.post.accExists
           /\ last.post.accSeq = (IF last.pre.accExists THEN last.pre.accSeq ELSE 0) + 1

C2_Witness ==
    /\ last.op = "SendToEvm"
    /\ last.err = Nil
    /\ last.pre.accExists
    /\ last.pre.accSeq = 1
    /\ last.post.accSeq = 2

\* C3: a CallEvm that returns an error returns two nil results, runs neither
\* the working-state Commit nor SetAccount, and leaves the system account and
\* the contract code as they were.
C3_FailedCallEvmWritesNothing ==
    (last.evm.called /\ last.evm.err # Nil)
        => /\ last.evm.res.nil
           /\ last.evm.data.nil
           /\ ~InTrace(last.trace, "Commit")
           /\ ~InTrace(last.trace, "SetAccount")
           /\ Unchanged

C3_Witness ==
    /\ last.evm.called
    /\ last.evm.err = "ErrExecution"
    /\ InTrace(last.trace, "TransitionDb")
    /\ last.pre.accExists
    /\ last.pre.accSeq = 1

\* C4: when the enclosing transaction aborts, the committed store is the
\* store committed before the transaction began, and nothing CallEvm wrote
\* remains visible.
C4_AbortDiscardsCallEvmWrites ==
    (last.op = "AbortTx") => (committed = txBegin /\ ctx = txBegin)

C4_Witness ==
    /\ last.op = "AbortTx"
    /\ txEvmOk > 0
    /\ last.pre.code # txBegin.code
    /\ last.pre.accSeq = txBegin.accSeq + 1

\* C5: a SendToEvm call whose recipient or contract string is not a
\* well-formed EVM address returns (false, ErrIsNotETHAddr) without invoking
\* CallEvm and without any collaborator call or state change.
C5_MalformedAddressRejectedFirst ==
    (last.op = "SendToEvm"
        /\ (~IsETHAddress(last.args.recipient) \/ ~IsETHAddress(last.args.contract)))
        => /\ ~last.success
           /\ last.err = "ErrIsNotETHAddr"
           /\ ~last.evm.called
           /\ last.trace = <<>>
           /\ Unchanged

C5_Witness ==
    /\ last.op = "SendToEvm"
    /\ last.args.recipient.body = "not-an-eth-address"
    /\ IsETHAddress(last.args.contract)
    /\ last.err = "ErrIsNotETHAddr"
    /\ chainConfig

\* C6 (as stated): at every height and for every value of the enable flag,
\* Handle called with a payload that fails to decode returns nil, does not
\* invoke SendToWasm and changes no state.
C6_DecodeFailureSwallowedEverywhere ==
    (last.op = "Handle" /\ Unpack(last.args.data).err)
        => (last.err = Nil /\ ~last.wasm.called /\ Unchanged)

\* C6 (amended): when the height gate passes and the bridge is enabled,
\* Handle called with a payload that fails to decode returns nil, does not
\* invoke SendToWasm and changes no state.
C6_DecodeFailureSwallowedWhenActive ==
    (last.op = "Handle" /\ last.h > earthHeight /\ earthHeight # 0 /\ last.enable
        /\ Unpack(last.args.data).err)
        => (last.err = Nil /\ ~last.wasm.called /\ Unchanged)

C6_Witness ==
    /\ last.op = "Handle"
    /\ last.enable
    /\ InTrace(last.trace, "Unpack")
    /\ Unpack(last.args.data).err
    /\ Len(last.args.data) = 2
    /\ last.err = Nil

C8_TargetReachedOnlyAboveActivation ==
    (last.wasm.called \/ last.evm.called)
        => (earthHeight # 0 /\ last.h > earthHeight)

\* C9: when the height gate passes and the enable flag is false, Handle
\* returns the bridge-disabled error without decoding the payload, without
\* invoking SendToWasm and without changing state; SendToWasm is invoked only
\* with the flag true.
C9_DisabledBridgeRejects ==
    /\ (last.op = "Handle" /\ earthHeight # 0 /\ last.h > earthHeight /\ ~last.enable)
        => /\ last.err = "ErrVMBridgeEnable"
           /\ ~InTrace(last.trace, "Unpack")
           /\ ~last.wasm.called
           /\ Unchanged
    /\ last.wasm.called => last.enable

C9_Witness ==
    /\ last.op = "Handle"
    /\ earthHeight # 0
    /\ last.h > earthHeight
    /\ ~last.enable
    /\ ~Unpack(last.args.data).err
    /\ last.err = "ErrVMBridgeEnable"

\* C10 (as stated): a SendToEvm call that returns an error or success=false
\* leaves the system account sequence as it was before the call.
C10_FailedCallKeepsSequence ==
    (last.op = "SendToEvm" /\ (last.err # Nil \/ ~last.success))
        => (last.post.accSeq = last.pre.accSeq /\ last.post.accExists = last.pre.accExists)

WasmFilterCall(kind) ==
    flast.kind = kind /\ flast.module = ModuleName /\ earthHeight # 0

\* C12: for the wasm module with a configured activation height H the commit
\* filter excludes the writes and stamps nothing below H, includes them and
\* stamps the store's marker with H at H, and includes them without a stamp
\* above H.
C12_CommitFilterTriState ==
    WasmFilterCall("commit")
        => /\ flast.h < earthHeight
                => (flast.res /\ flast.stamped = <<>> /\ flast.markerPost = flast.markerPre)
           /\ flast.h = earthHeight
                => /\ ~flast.res
                   /\ flast.hasStore
                        => /\ flast.stamped = <<earthHeight>>
                           /\ flast.markerPost = [set |-> TRUE, v |-> earthHeight]
           /\ flast.h > earthHeight
                => (~flast.res /\ flast.stamped = <<>> /\ flast.markerPost = flast.markerPre)

C12_Witness ==
    /\ WasmFilterCall("commit")
    /\ flast.h = earthHeight
    /\ flast.hasStore
    /\ ~flast.markerPre.set
    /\ flast.markerPost = [set |-> TRUE, v |-> earthHeight]
    /\ ~flast.res

C14_UnsetEnumeratesNothing ==
    (flast.kind = "version" /\ earthHeight = 0) => flast.cbs = <<>>

C19_CommitFilterIdempotentAtEarth ==
    (WasmFilterCall("commit") /\ flast.h = earthHeight /\ firstAtEarth.done)
        => /\ flast.res = firstAtEarth.res
           /\ upgradeVersion = firstAtEarth.marker

C19_Witness ==
    /\ WasmFilterCall("commit")
    /\ flast.h = earthHeight
    /\ flast.hasStore
    /\ flast.markerPre.set
    /\ stamps = 2
    /\ firstAtEarth.done

\* C16 (as stated): under any interleaving of calls to WasmDir() and
\* WasmConfig(), Init runs no more than once, it has run once a call has
\* returned, and every call that returns yields the value Init wrote, never
\* the zero value.
C16_InitOnceAndObserved ==
    /\ initRuns <= 1
    /\ rlast.returned
        => /\ initRuns = 1
           /\ rlast.val = (IF rlast.fn = "WasmDir" THEN LoadedDir ELSE LoadedConfig)

C11_AtMostOneBridgeCallPerTx ==
    inTx => txEvmOk + (ctx.wasmExec - txBegin.wasmExec) <= 1

SendToWasmCalls(tr) == Cardinality({i \in DOMAIN tr : tr[i] = "SendToWasm"})

C21_FiltersActOnlyOnWasm ==
    /\ flast.kind \in {"commit", "prune"}
         => /\ flast.module # ModuleName
                 => /\ ~flast.res
                    /\ flast.stamped = <<>>
                    /\ flast.markerPost = flast.markerPre
            /\ (earthHeight = 0 /\ flast.module = ModuleName)
                 => /\ flast.res
                    /\ flast.stamped = <<>>
                    /\ flast.markerPost = flast.markerPre
    /\ earthHeight = 0 => (stamps = 0 /\ ~upgradeVersion.set)

C21_Witness ==
    /\ flast.kind = "commit"
    /\ flast.module = "evm"
    /\ earthHeight # 0
    /\ flast.h = earthHeight
    /\ flast.hasStore
    /\ ~flast.res
    /\ flast.stamped = <<>>

\* C22: over any sequence of RegisterProposalType calls, registering a type
\* that is present (the built-in Text and SoftwareUpgrade included) panics
\* and leaves the registry as it was; registering a new type does not panic
\* and adds exactly that type; every type registered so far, every built-in
\* type and every type IsValidProposalType has answered true for is valid.
C22_RegistryOnlyGrows ==
    /\ plast.op = "RegisterProposalType"
         => /\ plast.panicked <=> plast.ty \in plast.pre
            /\ plast.panicked => plast.post = plast.pre
            /\ ~plast.panicked => plast.post = plast.pre \cup {plast.ty}
            /\ plast.post = validProposalTypes
    /\ plast.op = "IsValidProposalType"
         => /\ plast.ok <=> plast.ty \in validProposalTypes
            /\ plast.post = plast.pre
    /\ \A ty \in BuiltinProposalTypes \cup registered \cup everValid :
         IsValidProposalType(validProposalTypes, ty)

C22_Witness ==
    /\ plast.op = "RegisterProposalType"
    /\ plast.ty = ProposalTypeText
    /\ plast.panicked
    /\ "ParameterChange" \in registered
    /\ "ParameterChange" \in everValid
    /\ plast.post = BuiltinProposalTypes \cup registered

====
